---------------------------- MODULE Spec2Model ----------------------------
(***************************************************************************)
(* Model of nemo/collections/nlp/parts/nlp_overrides.py:                   *)
(*                                                                         *)
(*   GradScaler._maybe_opt_step / GradScaler.update                        *)
(*       one GradScaler per worker process, cooperating through            *)
(*       torch.distributed.all_reduce(MAX) on the model-parallel group;    *)
(*   NLPSaveRestoreConnector.save_to                                       *)
(*       called by every worker process, cooperating through               *)
(*       torch.distributed.barrier() and a shared checkpoint directory;    *)
(*   NLPDDPPlugin.setup_distributed / NLPDDPPlugin.init_model_parallel     *)
(*       called by every worker process on its own AppState.               *)
(*                                                                         *)
(* Workers are the global ranks 0 .. world_size-1 of one job.  The loss    *)
(* scale is an exact rational number (num/den); growth_factor and          *)
(* backoff_factor are the constructor defaults 2 and 1/2.                  *)
(***************************************************************************)
EXTENDS Integers, Sequences, FiniteSets, TLC

VARIABLES
    grid,                  \* the job's parallel sizes: [tp, pp, dp]
    \* ---- GradScaler (one instance per worker) ----
    enabled,               \* self._enabled, fixed by the constructor
    growth_interval,       \* self._growth_interval, fixed by the constructor
    scale,                 \* scale[w]: self._scale
    growth_tracker,        \* growth_tracker[w]: self._growth_tracker
    per_optimizer_states,  \* per_optimizer_states[w]: self._per_optimizer_states
    call,                  \* the call the training driver issued to every worker
    ncalls,                \* number of calls issued so far
    pc,                    \* pc[w]: the worker's position in the current call
    found_infs,            \* found_infs[w]: the tensors handed to all_reduce
    idx,                   \* idx[w]: index of the tensor being reduced
    reducing,              \* reducing[w]: the group w is blocked in all_reduce on
    found_inf_combined,    \* found_inf_combined[w]: local of update
    retval,                \* retval[w]: what the call returned
    outcome,               \* outcome[w]: "pending" | "returned" | "raised"
    opt_log,               \* opt_log[w]: optimizer.step invocations in this call
    n_reduce,              \* n_reduce[w]: all_reduce calls issued in this call
    pre,                   \* pre[w]: scale, tracker and bookkeeping at call time
    manual,                \* some update so far was given a new_scale
    iteration,             \* iteration[w]: was a step skipped since the last
                           \* completed update, and how many iterations in a
                           \* row had none skipped before this one
    \* ---- NLPSaveRestoreConnector.save_to (one instance per worker) ----
    configured,            \* app_state.model_parallel_size is not None
    initialized,           \* torch.distributed.is_initialized()
    save_pc,               \* save_pc[w]: the worker's position in save_to
    request,               \* request[w]: save_to calls the worker has begun
    files,                 \* the directory of save_path: file name -> content
    archive,               \* the file at save_path: {} or {its content}
    tmpdir,                \* tmpdir[w]: the worker's TemporaryDirectory
    tp_rank,               \* tp_rank[w]: loop variable of the leader's merge
    save_outcome,          \* save_outcome[w]: "pending" | "returned" | "raised"
    log,                   \* log[w]: messages the worker logged in save_to
    trace,                 \* trace[w]: file operations the worker performed
    \* ---- NLPDDPPlugin (one instance, and one AppState, per worker) ----
    app_state,             \* app_state[w]: the fields of AppState() the plugin
                           \* reads and sets
    parallel_state,        \* parallel_state[w]: has initialize_model_parallel
                           \* been called in this process
    plugin_pc,             \* plugin_pc[w]: the worker's position in the plugin
    plugin_outcome         \* plugin_outcome[w]: "pending" | "returned" | "raised"

scalerVars == <<enabled, growth_interval, scale, growth_tracker,
                per_optimizer_states, call, ncalls, pc, found_infs, idx,
                reducing, found_inf_combined, retval, outcome, opt_log,
                n_reduce, pre, manual, iteration>>

saveVars == <<configured, initialized, save_pc, request, files, archive,
              tmpdir, tp_rank, save_outcome, log, trace>>

pluginVars == <<app_state, parallel_state, plugin_pc, plugin_outcome>>

vars == <<grid, scalerVars, saveVars, pluginVars>>

-----------------------------------------------------------------------------
(* Bounds of the model *)

MaxWorld == 4            \* at most this many worker processes in a job
MaxScalerWorld == 3      \* at most this many worker processes in a job that
                         \* is followed through its GradScaler calls,
MaxScalerReplicas == 2   \* and at most this many data-parallel replicas
MaxCalls == 4            \* the driver issues at most this many scaler calls
MaxCallsAlone == 6       \* or this many, in a job of one worker process
NumOptimizers == 2       \* optimizers the driver may step in one iteration
MaxSaves == 2            \* save_to calls a worker makes when it saves repeatedly
MaxGrowthInterval == 2   \* growth_interval is drawn from 1 .. MaxGrowthInterval
NumDevices == 1          \* devices holding gradients in one worker process

-----------------------------------------------------------------------------
(* Exact rationals for the loss scale *)

RECURSIVE GCD(_, _)
GCD(a, b) == IF b = 0 THEN a ELSE GCD(b, a % b)

Abs(x) == IF x < 0 THEN -x ELSE x

Rat(n, d) ==
    LET g == GCD(Abs(n), d)
    IN  [num |-> n \div g, den |-> d \div g]

RatMul(a, b) == Rat(a.num * b.num, a.den * b.den)

\* GradScaler.__init__ defaults
init_scale == Rat(65536, 1)
growth_factor == Rat(2, 1)
backoff_factor == Rat(1, 2)

-----------------------------------------------------------------------------
(* The process grid *)

Grids ==
    {g \in [tp : 1..MaxWorld, pp : 1..MaxWorld, dp : 1..MaxWorld] :
        g.tp * g.pp * g.dp <= MaxWorld}

AllRanks == 0 .. (MaxWorld - 1)

world_size == grid.tp * grid.pp * grid.dp

Workers == 0 .. (world_size - 1)

\* rank layout of the model-parallel runtime: tensor-parallel ranks are
\* adjacent, then data-parallel, then pipeline stages
tensor_model_parallel_rank(w) == w % grid.tp
data_parallel_rank(w) == (w \div grid.tp) % grid.dp
pipeline_model_parallel_rank(w) == w \div (grid.tp * grid.dp)

get_model_parallel_group(w) ==
    {v \in Workers : data_parallel_rank(v) = data_parallel_rank(w)}

get_data_parallel_group(w) ==
    {v \in Workers :
        /\ tensor_model_parallel_rank(v) = tensor_model_parallel_rank(w)
        /\ pipeline_model_parallel_rank(v) = pipeline_model_parallel_rank(w)}

get_tensor_model_parallel_group(w) ==
    {v \in Workers :
        /\ data_parallel_rank(v) = data_parallel_rank(w)
        /\ pipeline_model_parallel_rank(v) = pipeline_model_parallel_rank(w)}

get_pipeline_model_parallel_group(w) ==
    {v \in Workers :
        /\ tensor_model_parallel_rank(v) = tensor_model_parallel_rank(w)
        /\ data_parallel_rank(v) = data_parallel_rank(w)}

get_data_parallel_world_size == grid.dp


-----------------------------------------------------------------------------
(* GradScaler: values *)

Optimizers == 1 .. NumOptimizers
Devices == 1 .. NumDevices
Args == {"a1", "a2"}          \* *args, **kwargs handed to scaler.step

\* what optimizer.step(*args, **kwargs) of optimizer o returns: a value that
\* identifies the invocation
StepResult(o, a) == <<"result", o, a>>
NoneValue == <<"None">>

NoneScale ==
    [type |-> "None", numel |-> 0, requires_grad |-> FALSE, value |-> Rat(0, 1)]

\* the new_scale arguments the driver may pass to update
NewScales ==
    { [type |-> "float", numel |-> 1, requires_grad |-> FALSE, value |-> Rat(0, 1)],
      [type |-> "FloatTensor", numel |-> 1, requires_grad |-> FALSE, value |-> Rat(4, 1)],
      [type |-> "FloatTensor", numel |-> 2, requires_grad |-> FALSE, value |-> Rat(4, 1)],
      [type |-> "FloatTensor", numel |-> 1, requires_grad |-> TRUE, value |-> Rat(4, 1)],
      [type |-> "int", numel |-> 1, requires_grad |-> FALSE, value |-> Rat(4, 1)] }

NoCall == [op |-> "none", optimizer |-> 0, args |-> "none", new_scale |-> NoneScale]

MaybeOptStepCalls ==
    { [op |-> "_maybe_opt_step", optimizer |-> o, args |-> a, new_scale |-> NoneScale] :
        o \in Optimizers, a \in Args }

UpdateCalls ==
    { [op |-> "update", optimizer |-> 0, args |-> "none", new_scale |-> n] :
        n \in {NoneScale} \cup NewScales }

RECURSIVE SumOver(_, _)
SumOver(f, S) ==
    IF S = {} THEN 0
    ELSE LET d == CHOOSE x \in S : TRUE
         IN  f[d] + SumOver(f, S \ {d})

RECURSIVE MaxOver(_, _)
MaxOver(f, S) ==
    LET d == CHOOSE x \in S : TRUE
    IN  IF S = {d} THEN f[d]
        ELSE LET m == MaxOver(f, S \ {d})
             IN  IF f[d] > m THEN f[d] ELSE m

\* the values of a found_inf_per_device dict, in device order
RECURSIVE DeviceValues(_, _)
DeviceValues(f, d) ==
    IF d > NumDevices THEN <<>> ELSE <<f[d]>> \o DeviceValues(f, d + 1)

\* found_infs of update: every device flag of every optimizer state, in
\* the order the optimizers were recorded
RECURSIVE gather_found_infs(_)
gather_found_infs(states) ==
    IF states = <<>> THEN <<>>
    ELSE DeviceValues(Head(states).found_inf_per_device, 1)
             \o gather_found_infs(Tail(states))

Recorded(states) == {states[i].optimizer : i \in 1..Len(states)}

-----------------------------------------------------------------------------
(* GradScaler: the pieces of the code the actions are built from *)

\* variant: the flag is reduced over the data-parallel peers only
maybe_opt_step_group_data_parallel(w) == get_data_parallel_group(w)

\* variant: the flag is reduced over every worker of the job
maybe_opt_step_group_world(w) == Workers

\* _maybe_opt_step: group=parallel_state.get_model_parallel_group()
maybe_opt_step_group(w) == get_model_parallel_group(w)

\* _maybe_opt_step: if found_inf.item() == 0
should_step(found_inf) == found_inf = 0

\* _maybe_opt_step: optimizer.step(*args, **kwargs)
step_args(c) == c.args

\* variant: update goes on whether the scaler is enabled or not
update_goes_on == FALSE

\* update: if not self._enabled: return
update_returns_at_once == ~enabled

\* variant: update decides on the worker's own flags, without reduction
update_group_local(w) == {w}

\* update: group=parallel_state.get_model_parallel_group()
update_group(w) == get_model_parallel_group(w)

\* variant: update does not insist on recorded inf checks
inf_checks_not_required(infs) == TRUE

\* update: assert len(found_infs) > 0
inf_checks_recorded(infs) == Len(infs) > 0

\* variant: only a plain float is taken as a new_scale
new_scale_accepted_float_only(n) == n.type = "float"

\* variant: every new_scale is taken
new_scale_accepted_any(n) == TRUE

\* update: the checks on a new_scale that is not a float
new_scale_accepted(n) ==
    \/ n.type = "float"
    \/ /\ n.type = "FloatTensor"
       /\ n.numel = 1
       /\ n.requires_grad = FALSE

\* variant: update leaves the per-optimizer states as they are
per_optimizer_states_kept(states) == states

\* update: self._per_optimizer_states = defaultdict(...)
refresh_per_optimizer_states(states) == <<>>

\* variant: the scale grows after every update that found no inf
amp_update_scale_eager_growth(s, t, found_inf, interval) ==
    IF found_inf # 0
    THEN [scale |-> RatMul(s, backoff_factor), growth_tracker |-> 0]
    ELSE [scale |-> RatMul(s, growth_factor), growth_tracker |-> 0]

\* variant: a backoff that leaves the growth tracker as it was
amp_update_scale_keeps_tracker(s, t, found_inf, interval) ==
    IF found_inf # 0
    THEN [scale |-> RatMul(s, backoff_factor), growth_tracker |-> t]
    ELSE LET successful == t + 1
         IN  IF successful = interval
             THEN [scale |-> RatMul(s, growth_factor), growth_tracker |-> 0]
             ELSE [scale |-> s, growth_tracker |-> successful]

\* variant: a growth that leaves the growth tracker counting
amp_update_scale_counts_on(s, t, found_inf, interval) ==
    IF found_inf # 0
    THEN [scale |-> RatMul(s, backoff_factor), growth_tracker |-> 0]
    ELSE LET successful == t + 1
         IN  IF successful = interval
             THEN [scale |-> RatMul(s, growth_factor),
                   growth_tracker |-> successful]
             ELSE [scale |-> s, growth_tracker |-> successful]

\* variant: the tracker is compared before it is incremented
amp_update_scale_late_growth(s, t, found_inf, interval) ==
    IF found_inf # 0
    THEN [scale |-> RatMul(s, backoff_factor), growth_tracker |-> 0]
    ELSE IF t = interval
         THEN [scale |-> RatMul(s, growth_factor), growth_tracker |-> 0]
         ELSE [scale |-> s, growth_tracker |-> t + 1]

\* torch._amp_update_scale_(_scale, _growth_tracker, found_inf_combined,
\*                          growth_factor, backoff_factor, growth_interval)
amp_update_scale(s, t, found_inf, interval) ==
    IF found_inf # 0
    THEN [scale |-> RatMul(s, backoff_factor), growth_tracker |-> 0]
    ELSE LET successful == t + 1
         IN  IF successful = interval
             THEN [scale |-> RatMul(s, growth_factor), growth_tracker |-> 0]
             ELSE [scale |-> s, growth_tracker |-> successful]

-----------------------------------------------------------------------------
(* save_to: values *)

model_weights_ckpt == "model_weights.ckpt"
model_config_yaml == "model_config.yaml"
not_implemented_msg ==
    "Saving .nemo for pipeline parallel is not implemented yet. Please use a conversion script."

NoFiles == [n \in {} |-> 0]
NoTmpdir == [exists |-> FALSE, dirs |-> {}, files |-> NoFiles]

Digit(d) == <<"0", "1", "2", "3", "4", "5", "6", "7", "8", "9">>[d + 1]

RECURSIVE Decimal(_)
Decimal(n) ==
    IF n < 10 THEN <<Digit(n)>> ELSE Decimal(n \div 10) \o <<Digit(n % 10)>>

\* f'{n:02d}': decimal digits, padded with a zero to two characters
Format02d(n) == IF n < 10 THEN <<"0">> \o Decimal(n) ELSE Decimal(n)

\* os.path.join(dir_name, f'mp_rank_{r:02d}_' + self.model_weights_ckpt),
\* relative to dir_name
shard_file(r) == <<"mp_rank_">> \o Format02d(r) \o <<"_", model_weights_ckpt>>

\* os.path.join(tmpdir, f'mp_rank_{r:02d}'), relative to tmpdir
shard_dir(r) == <<"mp_rank_">> \o Format02d(r)

\* variant: every shard is moved to the same file of the tmpdir
shard_in_tmpdir_flat(r) == <<model_weights_ckpt>>

\* os.path.join(tmpdir, f'mp_rank_{r:02d}', self.model_weights_ckpt)
shard_in_tmpdir(r) == shard_dir(r) \o <<"/", model_weights_ckpt>>

\* model.state_dict() of worker w as written in its k-th save_to call: the
\* weights of its tensor-parallel rank
state_dict(w, k) ==
    [kind |-> "weights", of |-> tensor_model_parallel_rank(w), request |-> k]

config_file(k) == [kind |-> "config", of |-> 0, request |-> k]

Put(f, n, c) == [x \in DOMAIN f \cup {n} |-> IF x = n THEN c ELSE f[x]]

\* model.artifacts: None, or the artifact files the model registered
NoArtifacts == {}
ModelArtifacts == {NoArtifacts, {<<"tokenizer.model">>}}

artifact_file(k) == [kind |-> "artifact", of |-> 0, request |-> k]

\* self._handle_artifacts(model, nemo_file_folder=tmpdir): the artifact
\* files are put into the root of the folder
handle_artifacts(folder, artifacts, k) ==
    [x \in DOMAIN folder \cup artifacts |->
        IF x \in artifacts THEN artifact_file(k) ELSE folder[x]]
Remove(f, n) == [x \in DOMAIN f \ {n} |-> f[x]]

FileOp(o, n) == [op |-> o, name |-> n]

\* no worker is in save_to
SaveIdle ==
    /\ configured = TRUE
    /\ initialized = TRUE
    /\ save_pc = [w \in Workers |-> "start"]
    /\ request = [w \in Workers |-> 0]
    /\ files = NoFiles
    /\ archive = {}
    /\ tmpdir = [w \in Workers |-> NoTmpdir]
    /\ tp_rank = [w \in Workers |-> 0]
    /\ save_outcome = [w \in Workers |-> "pending"]
    /\ log = [w \in Workers |-> <<>>]
    /\ trace = [w \in Workers |-> <<>>]

-----------------------------------------------------------------------------
(* NLPDDPPlugin: values *)

NoRank == -1             \* None, for a rank or a size of app_state
NoGroup == {}            \* None, for a group handle of app_state

\* AppState() as the plugin finds it: the tensor-parallel and
\* pipeline-parallel rank computed beforehand, the rest not set
AppStateWith(t, p) ==
    [tensor_model_parallel_rank |-> t,
     pipeline_model_parallel_rank |-> p,
     tensor_model_parallel_group |-> NoGroup,
     data_parallel_group |-> NoGroup,
     data_parallel_rank |-> NoRank,
     data_parallel_size |-> NoRank,
     pipeline_model_parallel_group |-> NoGroup]

PluginIdle ==
    /\ app_state = [w \in Workers |->
                      AppStateWith(tensor_model_parallel_rank(w),
                                   pipeline_model_parallel_rank(w))]
    /\ parallel_state = [w \in Workers |-> FALSE]
    /\ plugin_pc = [w \in Workers |-> "start"]
    /\ plugin_outcome = [w \in Workers |-> "pending"]

-----------------------------------------------------------------------------
(* GradScaler: actions *)

\* every worker has constructed its GradScaler and made no call yet
ScalerConstructed ==
    /\ scale = [w \in Workers |-> init_scale]
    /\ growth_tracker = [w \in Workers |-> 0]
    /\ per_optimizer_states = [w \in Workers |-> <<>>]
    /\ call = NoCall
    /\ ncalls = 0
    /\ pc = [w \in Workers |-> "idle"]
    /\ found_infs = [w \in Workers |-> <<>>]
    /\ idx = [w \in Workers |-> 0]
    /\ reducing = [w \in Workers |-> {}]
    /\ found_inf_combined = [w \in Workers |-> 0]
    /\ retval = [w \in Workers |-> NoneValue]
    /\ outcome = [w \in Workers |-> "pending"]
    /\ opt_log = [w \in Workers |-> <<>>]
    /\ n_reduce = [w \in Workers |-> 0]
    /\ pre = [w \in Workers |->
                [scale |-> init_scale, growth_tracker |-> 0, states |-> <<>>]]
    /\ manual = FALSE
    /\ iteration = [w \in Workers |->
                      [skipped |-> FALSE, clean |-> 0, counted |-> 0]]

ScalerInit ==
    /\ enabled \in BOOLEAN
    /\ growth_interval \in 1 .. MaxGrowthInterval
    /\ ScalerConstructed

CallBudget == IF world_size = 1 THEN MaxCallsAlone ELSE MaxCalls

\* The iteration a worker is in when the next call is issued.  A completed
\* update closes the iteration: the next one has no step skipped yet.
\* clean counts the iterations closed in a row without a skipped step,
\* counted those of them that an update() without new_scale closed; both
\* start again at 0 after an update() that changed the scale.
IterationAtCall(w) ==
    IF call.op = "update" /\ enabled /\ outcome[w] = "returned"
    THEN LET auto == call.new_scale.type = "None"
             again == iteration[w].skipped
                          \/ (auto /\ scale[w] # pre[w].scale)
         IN  [skipped |-> FALSE,
              clean |-> IF again THEN 0 ELSE iteration[w].clean + 1,
              counted |-> IF auto
                          THEN IF again THEN 0 ELSE iteration[w].counted + 1
                          ELSE iteration[w].counted]
    ELSE iteration[w]

\* The training driver issues the same call on every worker, once every
\* worker has come back from the previous one.  scaler.step reaches
\* _maybe_opt_step only on an enabled scaler, and refuses an optimizer that
\* was already stepped since the last update.
Call(c) ==
    /\ ncalls < CallBudget
    /\ \A w \in Workers : pc[w] \in {"idle", "returned"}
    /\ c.op = "_maybe_opt_step" =>
          /\ enabled
          /\ \A w \in Workers : c.optimizer \notin Recorded(per_optimizer_states[w])
    /\ call' = c
    /\ ncalls' = ncalls + 1
    /\ pc' = [w \in Workers |-> "called"]
    /\ found_infs' = [w \in Workers |-> <<>>]
    /\ idx' = [w \in Workers |-> 0]
    /\ found_inf_combined' = [w \in Workers |-> 0]
    /\ retval' = [w \in Workers |-> NoneValue]
    /\ outcome' = [w \in Workers |-> "pending"]
    /\ opt_log' = [w \in Workers |-> <<>>]
    /\ n_reduce' = [w \in Workers |-> 0]
    /\ pre' = [w \in Workers |->
                 [scale |-> scale[w], growth_tracker |-> growth_tracker[w],
                  states |-> per_optimizer_states[w]]]
    /\ iteration' = [w \in Workers |-> IterationAtCall(w)]
    /\ UNCHANGED <<grid, pluginVars, saveVars, enabled, growth_interval, scale, growth_tracker,
                   per_optimizer_states, reducing, manual>>

\* _maybe_opt_step up to its all_reduce.  optimizer_state is the state
\* scaler.step recorded for this optimizer: one found-inf flag per device.
MaybeOptStepReduce(w) ==
    /\ pc[w] = "called"
    /\ call.op = "_maybe_opt_step"
    /\ \E f \in [Devices -> {0, 1}] :
          /\ per_optimizer_states' =
                [per_optimizer_states EXCEPT ![w] =
                    Append(@, [optimizer |-> call.optimizer,
                               found_inf_per_device |-> f])]
          /\ found_infs' = [found_infs EXCEPT ![w] = <<SumOver(f, Devices)>>]
    /\ idx' = [idx EXCEPT ![w] = 1]
    /\ reducing' = [reducing EXCEPT ![w] = maybe_opt_step_group(w)]
    /\ n_reduce' = [n_reduce EXCEPT ![w] = @ + 1]
    /\ pc' = [pc EXCEPT ![w] = "all_reduce"]
    /\ UNCHANGED <<grid, pluginVars, saveVars, iteration,
                   enabled, growth_interval, scale, growth_tracker, call,
                   ncalls, found_inf_combined, retval, outcome, opt_log, pre,
                   manual>>

\* torch.distributed.all_reduce(tensor, op=MAX, group): completes once every
\* member of the group has called it, and leaves the maximum in every
\* member's tensor.
AllReduce(G) ==
    /\ G # {}
    /\ \A v \in G : pc[v] = "all_reduce" /\ reducing[v] = G
    /\ LET m == MaxOver([v \in G |-> found_infs[v][idx[v]]], G)
       IN  found_infs' = [v \in Workers |->
                             IF v \in G
                             THEN [found_infs[v] EXCEPT ![idx[v]] = m]
                             ELSE found_infs[v]]
    /\ pc' = [v \in Workers |-> IF v \in G THEN "reduced" ELSE pc[v]]
    /\ reducing' = [v \in Workers |-> IF v \in G THEN {} ELSE reducing[v]]
    /\ UNCHANGED <<grid, pluginVars, saveVars, iteration,
                   enabled, growth_interval, scale, growth_tracker,
                   per_optimizer_states, call, ncalls, idx, found_inf_combined,
                   retval, outcome, opt_log, n_reduce, pre, manual>>

\* _maybe_opt_step after its all_reduce
MaybeOptStepFinish(w) ==
    /\ pc[w] = "reduced"
    /\ call.op = "_maybe_opt_step"
    /\ IF should_step(found_infs[w][1])
       THEN LET r == StepResult(call.optimizer, step_args(call))
            IN  /\ opt_log' = [opt_log EXCEPT ![w] =
                                  Append(@, [optimizer |-> call.optimizer,
                                             args |-> step_args(call),
                                             result |-> r])]
                /\ retval' = [retval EXCEPT ![w] = r]
                /\ UNCHANGED iteration
       ELSE /\ iteration' = [iteration EXCEPT ![w].skipped = TRUE]
            /\ UNCHANGED <<opt_log, retval>>
    /\ outcome' = [outcome EXCEPT ![w] = "returned"]
    /\ pc' = [pc EXCEPT ![w] = "returned"]
    /\ UNCHANGED <<grid, pluginVars, saveVars, enabled, growth_interval, scale, growth_tracker,
                   per_optimizer_states, call, ncalls, found_infs, idx, reducing,
                   found_inf_combined, n_reduce, pre, manual>>

\* update on a disabled scaler: return at once
UpdateDisabled(w) ==
    /\ pc[w] = "called"
    /\ call.op = "update"
    /\ update_returns_at_once
    /\ outcome' = [outcome EXCEPT ![w] = "returned"]
    /\ pc' = [pc EXCEPT ![w] = "returned"]
    /\ UNCHANGED <<grid, pluginVars, saveVars, iteration,
                   enabled, growth_interval, scale, growth_tracker,
                   per_optimizer_states, call, ncalls, found_infs, idx, reducing,
                   found_inf_combined, retval, opt_log, n_reduce, pre, manual>>

\* update(new_scale) with a new_scale: fill or copy it into the scale, then
\* clear the per-optimizer states; a rejected new_scale raises before both
UpdateNewScale(w) ==
    /\ pc[w] = "called"
    /\ call.op = "update"
    /\ ~update_returns_at_once
    /\ call.new_scale.type # "None"
    /\ IF new_scale_accepted(call.new_scale)
       THEN /\ scale' = [scale EXCEPT ![w] = call.new_scale.value]
            /\ per_optimizer_states' =
                  [per_optimizer_states EXCEPT
                      ![w] = refresh_per_optimizer_states(@)]
            /\ outcome' = [outcome EXCEPT ![w] = "returned"]
            /\ manual' = TRUE
       ELSE /\ outcome' = [outcome EXCEPT ![w] = "raised"]
            /\ UNCHANGED <<scale, per_optimizer_states, manual>>
    /\ pc' = [pc EXCEPT ![w] = "returned"]
    /\ UNCHANGED <<grid, pluginVars, saveVars, iteration,
                   enabled, growth_interval, growth_tracker, call, ncalls,
                   found_infs, idx, reducing, found_inf_combined, retval,
                   opt_log, n_reduce, pre>>

\* update() without new_scale, up to its first all_reduce
UpdateGather(w) ==
    /\ pc[w] = "called"
    /\ call.op = "update"
    /\ ~update_returns_at_once
    /\ call.new_scale.type = "None"
    /\ LET infs == gather_found_infs(per_optimizer_states[w])
       IN  IF inf_checks_recorded(infs)
           THEN /\ found_infs' = [found_infs EXCEPT ![w] = infs]
                /\ idx' = [idx EXCEPT ![w] = 1]
                /\ reducing' = [reducing EXCEPT ![w] = update_group(w)]
                /\ n_reduce' = [n_reduce EXCEPT ![w] = @ + 1]
                /\ pc' = [pc EXCEPT ![w] = "all_reduce"]
                /\ UNCHANGED outcome
           ELSE /\ outcome' = [outcome EXCEPT ![w] = "raised"]
                /\ pc' = [pc EXCEPT ![w] = "returned"]
                /\ UNCHANGED <<found_infs, idx, reducing, n_reduce>>
    /\ UNCHANGED <<grid, pluginVars, saveVars, iteration,
                   enabled, growth_interval, scale, growth_tracker,
                   per_optimizer_states, call, ncalls, found_inf_combined,
                   retval, opt_log, pre, manual>>

\* update() after an all_reduce: add the reduced flag to found_inf_combined,
\* then reduce the next one, or update the scale and clear the states
UpdateReduced(w) ==
    /\ pc[w] = "reduced"
    /\ call.op = "update"
    /\ LET combined == IF idx[w] = 1
                       THEN found_infs[w][1]
                       ELSE found_inf_combined[w] + found_infs[w][idx[w]]
       IN  /\ found_inf_combined' = [found_inf_combined EXCEPT ![w] = combined]
           /\ IF idx[w] < Len(found_infs[w])
              THEN /\ idx' = [idx EXCEPT ![w] = @ + 1]
                   /\ reducing' = [reducing EXCEPT ![w] = update_group(w)]
                   /\ n_reduce' = [n_reduce EXCEPT ![w] = @ + 1]
                   /\ pc' = [pc EXCEPT ![w] = "all_reduce"]
                   /\ UNCHANGED <<scale, growth_tracker, per_optimizer_states,
                                  outcome>>
              ELSE LET new == amp_update_scale(scale[w], growth_tracker[w],
                                               combined, growth_interval)
                   IN  /\ scale' = [scale EXCEPT ![w] = new.scale]
                       /\ growth_tracker' =
                             [growth_tracker EXCEPT ![w] = new.growth_tracker]
                       /\ per_optimizer_states' =
                             [per_optimizer_states EXCEPT
                                 ![w] = refresh_per_optimizer_states(@)]
                       /\ outcome' = [outcome EXCEPT ![w] = "returned"]
                       /\ pc' = [pc EXCEPT ![w] = "returned"]
                       /\ UNCHANGED <<idx, reducing, n_reduce>>
    /\ UNCHANGED <<grid, pluginVars, saveVars, iteration,
                   enabled, growth_interval, call, ncalls, found_infs,
                   retval, opt_log, pre, manual>>

ScalerNext ==
    \/ \E c \in MaybeOptStepCalls \cup UpdateCalls : Call(c)
    \/ \E w \in Workers : MaybeOptStepReduce(w)
    \/ \E G \in SUBSET Workers : AllReduce(G)
    \/ \E w \in Workers : MaybeOptStepFinish(w)
    \/ \E w \in Workers : UpdateDisabled(w)
    \/ \E w \in Workers : UpdateNewScale(w)
    \/ \E w \in Workers : UpdateGather(w)
    \/ \E w \in Workers : UpdateReduced(w)

ScalerGrids ==
    {g \in Grids : g.tp * g.pp * g.dp <= MaxScalerWorld /\ g.dp <= MaxScalerReplicas}

ScalerSpecInit ==
    /\ grid \in ScalerGrids
    /\ ScalerInit
    /\ SaveIdle
    /\ PluginIdle

ScalerSpec == ScalerSpecInit /\ [][ScalerNext]_vars

-----------------------------------------------------------------------------
(* save_to: the pieces of the code the actions are built from *)

\* variant: the model-parallel path is taken whenever the size is set
uses_model_parallel_when_set == configured

\* app_state.model_parallel_size is not None and
\* app_state.model_parallel_size > 1
uses_model_parallel == configured /\ grid.tp * grid.pp > 1

\* app_state.pipeline_model_parallel_size == 1
single_pipeline_stage == grid.pp = 1

\* variant: every worker writes its weights, whatever its data-parallel rank
is_shard_writer_always(w) == TRUE

\* app_state.data_parallel_rank == 0
is_shard_writer(w) == data_parallel_rank(w) = 0

\* the file the worker writes its weights to
own_shard_file(w) == shard_file(tensor_model_parallel_rank(w))

\* variant: save_to without the barrier
calls_barrier_never == FALSE

\* if torch.distributed.is_initialized(): torch.distributed.barrier()
calls_barrier == initialized

\* variant: the barrier call inside "if app_state.data_parallel_rank == 0"
reaches_barrier_if_shard_writer(w) == calls_barrier /\ is_shard_writer(w)

\* the barrier call stands after the "if app_state.data_parallel_rank == 0"
\* block, not in it: a worker of any rank comes to it
reaches_barrier(w) == calls_barrier

\* variant: the merge is guarded by the tensor-parallel rank alone
is_leader_of_replica(w) == tensor_model_parallel_rank(w) = 0

\* app_state.tensor_model_parallel_rank == 0 and
\* app_state.data_parallel_rank == 0
is_leader(w) ==
    /\ tensor_model_parallel_rank(w) = 0
    /\ data_parallel_rank(w) = 0

\* variant: the tmpdir is left behind
TemporaryDirectory_kept(t) == t

\* leaving "with tempfile.TemporaryDirectory() as tmpdir", normally or by an
\* exception: the directory and what is in it are removed
TemporaryDirectory_exit(t) == NoTmpdir

-----------------------------------------------------------------------------
(* save_to: actions *)

SaveInit ==
    /\ configured \in BOOLEAN
    /\ ~configured => (grid.tp = 1 /\ grid.pp = 1)
    /\ initialized \in BOOLEAN
    /\ save_pc = [w \in Workers |-> "start"]
    /\ request = [w \in Workers |-> 0]
    /\ files = NoFiles
    /\ archive = {}
    /\ tmpdir = [w \in Workers |-> NoTmpdir]
    /\ tp_rank = [w \in Workers |-> 0]
    /\ save_outcome = [w \in Workers |-> "pending"]
    /\ log = [w \in Workers |-> <<>>]
    /\ trace = [w \in Workers |-> <<>>]

\* no model parallelism: super().save_to(model, save_path)
SaveDelegate(w) ==
    /\ save_pc[w] = "start"
    /\ ~uses_model_parallel
    /\ request' = [request EXCEPT ![w] = @ + 1]
    /\ trace' = [trace EXCEPT ![w] = Append(@, FileOp("super_save_to", <<>>))]
    /\ save_outcome' = [save_outcome EXCEPT ![w] = "returned"]
    /\ save_pc' = [save_pc EXCEPT ![w] = "done"]
    /\ UNCHANGED <<grid, pluginVars, scalerVars, configured, initialized, files, archive,
                   tmpdir, tp_rank, log>>

\* model parallelism with more than one pipeline stage: the body of
\* "if app_state.pipeline_model_parallel_size == 1" is not entered, and
\* that if has no else
SaveSkipPipeline(w) ==
    /\ save_pc[w] = "start"
    /\ uses_model_parallel
    /\ ~single_pipeline_stage
    /\ request' = [request EXCEPT ![w] = @ + 1]
    /\ save_outcome' = [save_outcome EXCEPT ![w] = "returned"]
    /\ save_pc' = [save_pc EXCEPT ![w] = "done"]
    /\ UNCHANGED <<grid, pluginVars, scalerVars, configured, initialized, files, archive,
                   tmpdir, tp_rank, log, trace>>

\* the data-parallel rank 0 workers write their weights, then every worker
\* goes to the barrier, if there is one
SaveShard(w) ==
    /\ save_pc[w] = "start"
    /\ uses_model_parallel
    /\ single_pipeline_stage
    /\ request' = [request EXCEPT ![w] = @ + 1]
    /\ IF is_shard_writer(w)
       THEN /\ files' = Put(files, own_shard_file(w), state_dict(w, request[w] + 1))
            /\ trace' = [trace EXCEPT ![w] =
                            Append(@, FileOp("write", own_shard_file(w)))]
       ELSE UNCHANGED <<files, trace>>
    /\ save_pc' = [save_pc EXCEPT ![w] =
                      IF reaches_barrier(w) THEN "barrier" ELSE "merge"]
    /\ UNCHANGED <<grid, pluginVars, scalerVars, configured, initialized, archive, tmpdir,
                   tp_rank, save_outcome, log>>

\* torch.distributed.barrier(): every worker of the job has called it
Barrier ==
    /\ \A w \in Workers : save_pc[w] = "barrier"
    /\ save_pc' = [w \in Workers |-> "merge"]
    /\ UNCHANGED <<grid, pluginVars, scalerVars, configured, initialized, request, files,
                   archive, tmpdir, tp_rank, save_outcome, log, trace>>

\* the else of "if tensor_model_parallel_rank == 0 and data_parallel_rank == 0"
SaveNotLeader(w) ==
    /\ save_pc[w] = "merge"
    /\ ~is_leader(w)
    /\ log' = [log EXCEPT ![w] = Append(@, not_implemented_msg)]
    /\ save_outcome' = [save_outcome EXCEPT ![w] = "returned"]
    /\ save_pc' = [save_pc EXCEPT ![w] = "done"]
    /\ UNCHANGED <<grid, pluginVars, scalerVars, configured, initialized, request, files,
                   archive, tmpdir, tp_rank, trace>>

\* the leader enters "with tempfile.TemporaryDirectory() as tmpdir"
LeaderMakeTmpdir(w) ==
    /\ save_pc[w] = "merge"
    /\ is_leader(w)
    /\ tmpdir' = [tmpdir EXCEPT ![w] =
                     [exists |-> TRUE, dirs |-> {}, files |-> NoFiles]]
    /\ tp_rank' = [tp_rank EXCEPT ![w] = 0]
    /\ trace' = [trace EXCEPT ![w] = Append(@, FileOp("mkdtemp", <<>>))]
    /\ save_pc' = [save_pc EXCEPT ![w] = "move"]
    /\ UNCHANGED <<grid, pluginVars, scalerVars, configured, initialized, request, files,
                   archive, save_outcome, log>>

\* one round of "for tp_rank in range(tensor_model_parallel_size)":
\* os.makedirs, then shutil.move, which raises when the file is missing;
\* leaving the with block by the exception removes the tmpdir
LeaderMoveShard(w) ==
    /\ save_pc[w] = "move"
    /\ LET r == tp_rank[w]
       IN  IF shard_file(r) \in DOMAIN files
           THEN /\ files' = Remove(files, shard_file(r))
                /\ tmpdir' = [tmpdir EXCEPT ![w] =
                                 [exists |-> TRUE,
                                  dirs |-> @.dirs \cup {shard_dir(r)},
                                  files |-> Put(@.files, shard_in_tmpdir(r),
                                                files[shard_file(r)])]]
                /\ trace' = [trace EXCEPT ![w] =
                                Append(@, FileOp("move", shard_file(r)))]
                /\ tp_rank' = [tp_rank EXCEPT ![w] = r + 1]
                /\ save_pc' = [save_pc EXCEPT ![w] =
                                  IF r + 1 < grid.tp THEN "move" ELSE "package"]
                /\ UNCHANGED save_outcome
           ELSE /\ tmpdir' = [tmpdir EXCEPT ![w] = TemporaryDirectory_exit(@)]
                /\ trace' = [trace EXCEPT ![w] =
                                Append(@, FileOp("move_failed", shard_file(r)))]
                /\ save_outcome' = [save_outcome EXCEPT ![w] = "raised"]
                /\ save_pc' = [save_pc EXCEPT ![w] = "done"]
                /\ UNCHANGED <<files, tp_rank>>
    /\ UNCHANGED <<grid, pluginVars, scalerVars, configured, initialized, request, archive,
                   log>>

\* the leader writes the config into the tmpdir, adds the model's artifacts
\* if it has any, makes the tar file at save_path from the tmpdir and leaves
\* the with block
LeaderPackage(w) ==
    /\ save_pc[w] = "package"
    /\ \E artifacts \in ModelArtifacts :
          LET with_config == Put(tmpdir[w].files, <<model_config_yaml>>,
                                 config_file(request[w]))
              folder == IF artifacts # NoArtifacts
                        THEN handle_artifacts(with_config, artifacts, request[w])
                        ELSE with_config
          IN  archive' = {[dirs |-> tmpdir[w].dirs, files |-> folder]}
    /\ tmpdir' = [tmpdir EXCEPT ![w] = TemporaryDirectory_exit(@)]
    /\ trace' = [trace EXCEPT ![w] = Append(@, FileOp("archive", <<>>))]
    /\ save_outcome' = [save_outcome EXCEPT ![w] = "returned"]
    /\ save_pc' = [save_pc EXCEPT ![w] = "done"]
    /\ UNCHANGED <<grid, pluginVars, scalerVars, configured, initialized, request, files,
                   tp_rank, log>>

\* the caller, back from save_to, calls it again with the same save_path
SaveAgain(w) ==
    /\ save_pc[w] = "done"
    /\ save_outcome[w] = "returned"
    /\ request[w] < MaxSaves
    /\ save_pc' = [save_pc EXCEPT ![w] = "start"]
    /\ save_outcome' = [save_outcome EXCEPT ![w] = "pending"]
    /\ UNCHANGED <<grid, pluginVars, scalerVars, configured, initialized, request, files,
                   archive, tmpdir, tp_rank, log, trace>>

SaveNext ==
    \/ \E w \in Workers : SaveDelegate(w)
    \/ \E w \in Workers : SaveSkipPipeline(w)
    \/ \E w \in Workers : SaveShard(w)
    \/ Barrier
    \/ \E w \in Workers : SaveNotLeader(w)
    \/ \E w \in Workers : LeaderMakeTmpdir(w)
    \/ \E w \in Workers : LeaderMoveShard(w)
    \/ \E w \in Workers : LeaderPackage(w)

-----------------------------------------------------------------------------
(* GradScaler: properties *)

\* some found-inf flag of optimizer o is set in these per-optimizer states
OptimizerFlag(states, o) ==
    \E i \in 1..Len(states) :
        /\ states[i].optimizer = o
        /\ \E d \in Devices : states[i].found_inf_per_device[d] = 1

\* some found-inf flag of some optimizer is set in these per-optimizer states
AnyFlag(states) ==
    \E i \in 1..Len(states) :
        \E d \in Devices : states[i].found_inf_per_device[d] = 1

\* the optimizer of the current _maybe_opt_step call has a flag set on some
\* worker of w's model-parallel group
GroupStepOverflow(w) ==
    \E v \in get_model_parallel_group(w) :
        OptimizerFlag(per_optimizer_states[v], call.optimizer)

\* every worker of w's model-parallel group has recorded its flags for the
\* optimizer of the current _maybe_opt_step call
GroupRecorded(w) ==
    \A v \in get_model_parallel_group(w) :
        call.optimizer \in Recorded(per_optimizer_states[v])

\* a flag was recorded, before the current update, on some worker of w's
\* model-parallel group
GroupOverflow(w) ==
    \E v \in get_model_parallel_group(w) : AnyFlag(pre[v].states)

\* worker w has come back from an update() without new_scale on an enabled
\* scaler
UpdateReturned(w) ==
    /\ call.op = "update"
    /\ call.new_scale.type = "None"
    /\ enabled
    /\ pc[w] = "returned"

\* C1: in a _maybe_opt_step call, if a found-inf flag of the optimizer is
\* set on any worker of the model-parallel group, no worker of the group
\* invokes optimizer.step and each returns None, also a worker whose own
\* flags are all clear.
C1_SkipOnGroupOverflow ==
    call.op = "_maybe_opt_step" =>
        \A w \in Workers :
            GroupStepOverflow(w) =>
                /\ opt_log[w] = <<>>
                /\ retval[w] = NoneValue

C1_Witness ==
    /\ call.op = "_maybe_opt_step"
    /\ \E w \in Workers :
          \E v \in get_model_parallel_group(w) :
              /\ pc[w] = "returned"
              /\ pc[v] = "returned"
              /\ ~OptimizerFlag(per_optimizer_states[w], call.optimizer)
              /\ OptimizerFlag(per_optimizer_states[v], call.optimizer)
              /\ opt_log[w] = <<>>

\* C2: as long as no update was given a new_scale, two workers of one
\* model-parallel group that are at the same side of the current call hold
\* the same scale and the same growth tracker; and the overflow decision a
\* worker applies in update is true exactly when some flag recorded by some
\* optimizer on some worker of its group is set.
C2_ScaleConsistent ==
    /\ ~manual =>
          \A w \in Workers :
              \A v \in get_model_parallel_group(w) :
                  ((pc[w] = "returned") = (pc[v] = "returned")) =>
                      /\ scale[w] = scale[v]
                      /\ growth_tracker[w] = growth_tracker[v]
    /\ \A w \in Workers :
          (UpdateReturned(w) /\ outcome[w] = "returned") =>
              ((found_inf_combined[w] # 0) = GroupOverflow(w))

C2_Witness ==
    \E w \in Workers :
        \E v \in get_model_parallel_group(w) :
            /\ UpdateReturned(w)
            /\ UpdateReturned(v)
            /\ AnyFlag(pre[v].states)
            /\ ~AnyFlag(pre[w].states)
            /\ scale[w] = RatMul(pre[w].scale, backoff_factor)
            /\ scale[v] = scale[w]

\* C7: in a _maybe_opt_step call, if every found-inf flag of the optimizer
\* is clear on every worker of the model-parallel group, a worker that has
\* returned has invoked optimizer.step exactly once, with the arguments of
\* the call, and has returned that invocation's result.
C7_StepOnceWhenClean ==
    call.op = "_maybe_opt_step" =>
        \A w \in Workers :
            (pc[w] = "returned" /\ GroupRecorded(w) /\ ~GroupStepOverflow(w)) =>
                /\ Len(opt_log[w]) = 1
                /\ opt_log[w][1].optimizer = call.optimizer
                /\ opt_log[w][1].args = call.args
                /\ retval[w] = opt_log[w][1].result
                /\ retval[w] # NoneValue

C7_Witness ==
    /\ call.op = "_maybe_opt_step"
    /\ \E w \in Workers :
          /\ Cardinality(get_model_parallel_group(w)) > 1
          /\ \A v \in get_model_parallel_group(w) : pc[v] = "returned"
          /\ ~GroupStepOverflow(w)
          /\ Len(opt_log[w]) = 1
          /\ retval[w] = StepResult(call.optimizer, call.args)

\* C8: a worker that has returned from update() without new_scale on an
\* enabled scaler, when a flag was set in its model-parallel group, holds
\* the old scale times backoff_factor and a growth tracker of 0, whatever
\* the growth tracker was before.
C8_Backoff ==
    \A w \in Workers :
        (UpdateReturned(w) /\ GroupOverflow(w)) =>
            /\ outcome[w] = "returned"
            /\ scale[w] = RatMul(pre[w].scale, backoff_factor)
            /\ growth_tracker[w] = 0

C8_Witness ==
    \E w \in Workers :
        /\ UpdateReturned(w)
        /\ GroupOverflow(w)
        /\ ~AnyFlag(pre[w].states)
        /\ pre[w].growth_tracker > 0
        /\ scale[w] = RatMul(pre[w].scale, backoff_factor)
        /\ growth_tracker[w] = 0

\* C9: a worker that has returned normally from update() without new_scale
\* on an enabled scaler, when no flag was set in its model-parallel group:
\* if growth_tracker + 1 < growth_interval the scale is unchanged and the
\* tracker is one more; if growth_tracker + 1 = growth_interval the scale is
\* the old scale times growth_factor and the tracker is 0.
C9_Growth ==
    \A w \in Workers :
        (UpdateReturned(w) /\ outcome[w] = "returned" /\ ~GroupOverflow(w)) =>
            /\ pre[w].growth_tracker + 1 < growth_interval =>
                  /\ scale[w] = pre[w].scale
                  /\ growth_tracker[w] = pre[w].growth_tracker + 1
            /\ pre[w].growth_tracker + 1 = growth_interval =>
                  /\ scale[w] = RatMul(pre[w].scale, growth_factor)
                  /\ growth_tracker[w] = 0

C9_Witness ==
    \E w \in Workers :
        /\ UpdateReturned(w)
        /\ outcome[w] = "returned"
        /\ ~GroupOverflow(w)
        /\ Cardinality(get_model_parallel_group(w)) > 1
        /\ pre[w].growth_tracker = 1
        /\ growth_interval = 2
        /\ scale[w] = RatMul(pre[w].scale, growth_factor)
        /\ growth_tracker[w] = 0

\* C10: update() without new_scale on an enabled scaler whose per-optimizer
\* states hold no found-inf flag raises; the worker issues no all_reduce,
\* and scale, growth tracker and per-optimizer states stay as they were.
C10_EmptyUpdateRaises ==
    \A w \in Workers :
        (/\ call.op = "update"
         /\ call.new_scale.type = "None"
         /\ enabled
         /\ gather_found_infs(pre[w].states) = <<>>) =>
            /\ pc[w] \in {"called", "returned"}
            /\ n_reduce[w] = 0
            /\ pc[w] = "returned" => outcome[w] = "raised"
            /\ scale[w] = pre[w].scale
            /\ growth_tracker[w] = pre[w].growth_tracker
            /\ per_optimizer_states[w] = pre[w].states

C10_Witness ==
    \E w \in Workers :
        /\ UpdateReturned(w)
        /\ gather_found_infs(pre[w].states) = <<>>
        /\ outcome[w] = "raised"
        /\ growth_tracker[w] > 0

\* worker w has come back from an update() on an enabled scaler that was
\* called with empty per-optimizer states
EmptyUpdateDone(w) ==
    /\ call.op = "update"
    /\ enabled
    /\ pre[w].states = <<>>
    /\ pc[w] = "returned"

\* a float, or a FloatTensor of one element that does not require grad
PlainScalar(n) ==
    \/ n.type = "float"
    \/ n.type = "FloatTensor" /\ n.numel = 1 /\ ~n.requires_grad

\* C11 (as stated): on an enabled scaler every update() that no
\* _maybe_opt_step preceded raises, whatever its new_scale.
C11_UpdateNeedsMaybeStep ==
    \A w \in Workers : EmptyUpdateDone(w) => outcome[w] = "raised"

\* C11 (amended): on an enabled scaler an update() that no _maybe_opt_step
\* preceded raises when it has no new_scale, and also when its new_scale is
\* not a plain scalar; with a plain-scalar new_scale it returns normally,
\* having set the scale to it.
C11_EmptyUpdateOutcome ==
    \A w \in Workers :
        EmptyUpdateDone(w) =>
            IF PlainScalar(call.new_scale)
            THEN /\ outcome[w] = "returned"
                 /\ scale[w] = call.new_scale.value
            ELSE /\ outcome[w] = "raised"
                 /\ scale[w] = pre[w].scale

C11_Witness ==
    \E w \in Workers :
        /\ EmptyUpdateDone(w)
        /\ call.new_scale.type = "FloatTensor"
        /\ PlainScalar(call.new_scale)
        /\ outcome[w] = "returned"
        /\ scale[w] # pre[w].scale

\* C14: on an enabled scaler, constructed with a positive scale,
\* growth_factor > 1 and 0 < backoff_factor < 1, the scale of every worker
\* is positive after any sequence of _maybe_opt_step and update calls, also
\* of updates with a new_scale.
C14_ScalePositive ==
    (/\ enabled
     /\ init_scale.num > 0
     /\ growth_factor.num > growth_factor.den
     /\ 0 < backoff_factor.num
     /\ backoff_factor.num < backoff_factor.den) =>
        \A w \in Workers : scale[w].num > 0 /\ scale[w].den > 0

\* C15: in an update(new_scale) on an enabled scaler a worker issues no
\* all_reduce and keeps its growth tracker; a worker that has not run the
\* call yet still holds its old scale; a worker that has run it holds
\* new_scale if that is a plain float or a FloatTensor of one element that
\* does not require grad, and otherwise has raised and holds its old scale.
C15_ManualOverride ==
    (call.op = "update" /\ enabled /\ call.new_scale.type # "None") =>
        \A w \in Workers :
            /\ pc[w] \in {"called", "returned"}
            /\ n_reduce[w] = 0
            /\ growth_tracker[w] = pre[w].growth_tracker
            /\ pc[w] = "called" => scale[w] = pre[w].scale
            /\ pc[w] = "returned" =>
                  IF PlainScalar(call.new_scale)
                  THEN /\ outcome[w] = "returned"
                       /\ scale[w] = call.new_scale.value
                  ELSE /\ outcome[w] = "raised"
                       /\ scale[w] = pre[w].scale

C15_Witness ==
    /\ call.op = "update"
    /\ enabled
    /\ PlainScalar(call.new_scale)
    /\ \E w \in Workers :
          \E v \in get_model_parallel_group(w) :
              /\ pc[w] = "returned"
              /\ pc[v] = "called"
              /\ pre[w].growth_tracker > 0
              /\ scale[w] = call.new_scale.value
              /\ scale[v] # scale[w]

\* every worker has returned normally from an update() on an enabled scaler
UpdateCompleted ==
    /\ call.op = "update"
    /\ enabled
    /\ \A w \in Workers : pc[w] = "returned" /\ outcome[w] = "returned"

\* C16: a worker that has returned normally from an update on an enabled
\* scaler, with or without new_scale, holds no per-optimizer state; an
\* update() without new_scale that is called next after a completed update
\* starts with empty per-optimizer states; and an update() without
\* new_scale that started so raises.
C16_BookkeepingReset ==
    /\ [](\A w \in Workers :
             (call.op = "update" /\ enabled
                 /\ pc[w] = "returned" /\ outcome[w] = "returned") =>
                 per_optimizer_states[w] = <<>>)
    /\ [][(UpdateCompleted /\ ncalls' = ncalls + 1 /\ call'.op = "update") =>
             \A w \in Workers :
                 /\ pre'[w].states = <<>>
                 /\ gather_found_infs(pre'[w].states) = <<>>]_vars
    /\ [](\A w \in Workers :
             (UpdateReturned(w) /\ pre[w].states = <<>>) =>
                 outcome[w] = "raised")

C16_Witness ==
    /\ call.op = "update"
    /\ enabled
    /\ call.new_scale.type = "float"
    /\ \E w \in Workers :
          /\ pc[w] = "returned"
          /\ outcome[w] = "returned"
          /\ Len(pre[w].states) = 2
          /\ per_optimizer_states[w] = <<>>


\* C17: on a scaler constructed with enabled = False, a worker in an
\* update, with or without new_scale, keeps its scale, growth tracker and
\* per-optimizer states, issues no all_reduce and does not raise; and
\* enabled never changes.
C17_DisabledNoOp ==
    /\ [](~enabled =>
             \A w \in Workers :
                 /\ scale[w] = pre[w].scale
                 /\ scale[w] = init_scale
                 /\ growth_tracker[w] = pre[w].growth_tracker
                 /\ per_optimizer_states[w] = pre[w].states
                 /\ n_reduce[w] = 0
                 /\ pc[w] \in {"idle", "called", "returned"}
                 /\ outcome[w] # "raised"
                 /\ pc[w] = "returned" => outcome[w] = "returned")
    /\ [][enabled' = enabled]_vars

C17_Witness ==
    /\ ~enabled
    /\ call.op = "update"
    /\ ncalls > 1
    /\ call.new_scale.type = "float"
    /\ \E w \in Workers :
          /\ pc[w] = "returned"
          /\ outcome[w] = "returned"
          /\ scale[w] # call.new_scale.value

\* a step was skipped, in the iteration the current update closes, on some
\* worker of w's model-parallel group
GroupSkipped(w) ==
    \E v \in get_model_parallel_group(w) : iteration[v].skipped

\* the current update multiplied worker w's scale by growth_factor
Grew(w) ==
    /\ UpdateReturned(w)
    /\ outcome[w] = "returned"
    /\ scale[w] = RatMul(pre[w].scale, growth_factor)
    /\ scale[w] # pre[w].scale

\* C19 (as stated): an update() without new_scale that follows an
\* iteration in which a step was skipped on some worker of the
\* model-parallel group multiplies the scale by backoff_factor; and an
\* update multiplies the scale by growth_factor only if no step was skipped
\* in its iteration and in the growth_interval - 1 iterations closed by the
\* updates before it, counted since the last backoff or growth.
C19_GrowthNeedsCleanRun ==
    \A w \in Workers :
        /\ (UpdateReturned(w) /\ GroupSkipped(w)) =>
              /\ outcome[w] = "returned"
              /\ scale[w] = RatMul(pre[w].scale, backoff_factor)
        /\ Grew(w) =>
              /\ ~GroupSkipped(w)
              /\ iteration[w].clean + 1 >= growth_interval

\* C19 (amended): as stated, but the growth_interval - 1 iterations before
\* the growing update are taken among those closed by an update() without
\* new_scale; an iteration closed by update(new_scale) is passed over, also
\* when a step was skipped in it.
C19_GrowthNeedsCountedRun ==
    \A w \in Workers :
        /\ (UpdateReturned(w) /\ GroupSkipped(w)) =>
              /\ outcome[w] = "returned"
              /\ scale[w] = RatMul(pre[w].scale, backoff_factor)
        /\ Grew(w) =>
              /\ ~GroupSkipped(w)
              /\ iteration[w].counted + 1 >= growth_interval

C19_Witness ==
    /\ growth_interval = 2
    /\ \E w \in Workers :
          /\ Grew(w)
          /\ iteration[w].counted = 1
          /\ iteration[w].clean = 0

\* C22: on a scaler constructed with growth_tracker = 0 and
\* growth_interval > 0, in every state, after any sequence of
\* _maybe_opt_step and update calls (update() that reduces, update with a
\* new_scale, update that raises), 0 <= growth_tracker < growth_interval
\* on every worker.
C22_GrowthTrackerBound ==
    \A w \in Workers :
        /\ 0 <= growth_tracker[w]
        /\ growth_tracker[w] < growth_interval

\* after an update with a new_scale, an update() that found no inf takes the
\* tracker from growth_interval - 1 back to 0
C22_Witness ==
    /\ enabled
    /\ growth_interval > 1
    /\ manual
    /\ \E w \in Workers :
          /\ UpdateReturned(w)
          /\ call.new_scale.type = "None"
          /\ found_inf_combined[w] = 0
          /\ pre[w].growth_tracker = growth_interval - 1
          /\ growth_tracker[w] = 0

-----------------------------------------------------------------------------
(* save_to: properties *)

\* the positions in trace[w] of the operations named o
Ops(w, o) == {i \in 1..Len(trace[w]) : trace[w][i].op = o}

RECURSIVE CountOps(_, _)
CountOps(S, o) ==
    IF S = {} THEN 0
    ELSE LET w == CHOOSE x \in S : TRUE
         IN  Cardinality(Ops(w, o)) + CountOps(S \ {w}, o)

AllLeft == \A w \in Workers : save_pc[w] # "start"
AllDone == \A w \in Workers : save_pc[w] = "done"

\* mp_rank_<NN>_model_weights.ckpt, NN written out for the ranks of the model
TwoDigits ==
    << <<"0", "0">>, <<"0", "1">>, <<"0", "2">>, <<"0", "3">>, <<"0", "4">>,
       <<"0", "5">>, <<"0", "6">>, <<"0", "7">>, <<"0", "8">>, <<"0", "9">> >>

ExpectedShardFile(r) ==
    <<"mp_rank_", TwoDigits[r + 1][1], TwoDigits[r + 1][2], "_",
      "model_weights.ckpt">>

\* C3: with the distributed runtime initialized, model-parallel size > 1
\* and one pipeline stage, the leader is in its merge only when every
\* worker of data-parallel rank 0 has written its shard, the shard it is
\* about to move exists, and no move of it has failed.
C3_MergeAfterWrites ==
    (initialized /\ uses_model_parallel /\ single_pipeline_stage) =>
        \A w \in Workers :
            /\ (save_pc[w] \in {"move", "package"} \/ Ops(w, "move") # {}) =>
                  \A v \in Workers :
                      data_parallel_rank(v) = 0 => Ops(v, "write") # {}
            /\ save_pc[w] = "move" => shard_file(tp_rank[w]) \in DOMAIN files
            /\ Ops(w, "move_failed") = {}

C3_Witness ==
    /\ initialized
    /\ grid.tp > 1
    /\ grid.dp > 1
    /\ \E w \in Workers :
          /\ tensor_model_parallel_rank(w) = 0
          /\ data_parallel_rank(w) = 0
          /\ save_pc[w] = "package"
          /\ Cardinality(Ops(w, "move")) = grid.tp

\* C4: in a save with model-parallel size > 1 and one pipeline stage, a
\* worker writes a shard file if and only if its data-parallel rank is 0,
\* it writes it once and under the name
\* mp_rank_<tensor-parallel rank, 2 digits>_model_weights.ckpt, no two
\* workers write the same name, and tensor_parallel_size shard files are
\* written in all.
C4_ShardWrites ==
    (uses_model_parallel /\ single_pipeline_stage) =>
        /\ \A w \in Workers :
              /\ Ops(w, "write") # {} => data_parallel_rank(w) = 0
              /\ (save_pc[w] # "start" /\ data_parallel_rank(w) = 0) =>
                    Ops(w, "write") # {}
              /\ Cardinality(Ops(w, "write")) <= 1
              /\ \A i \in Ops(w, "write") :
                    trace[w][i].name =
                        ExpectedShardFile(tensor_model_parallel_rank(w))
        /\ \A w \in Workers : \A v \in Workers \ {w} :
              \A i \in Ops(w, "write") : \A j \in Ops(v, "write") :
                  trace[w][i].name # trace[v][j].name
        /\ AllLeft => CountOps(Workers, "write") = grid.tp

C4_Witness ==
    /\ grid = [tp |-> 2, pp |-> 1, dp |-> 2]
    /\ configured
    /\ AllDone
    /\ CountOps(Workers, "write") = 2
    /\ \E w \in Workers : data_parallel_rank(w) # 0 /\ Ops(w, "write") = {}

\* C5: in one save request the archive at save_path is made at most once;
\* a worker that makes a scratch directory, moves a shard file or makes the
\* archive has tensor-parallel rank 0 and data-parallel rank 0, and the job
\* has one pipeline stage.
C5_SinglePackager ==
    /\ CountOps(Workers, "archive") <= 1
    /\ archive # {} => CountOps(Workers, "archive") = 1
    /\ \A w \in Workers :
          (\/ tmpdir[w].exists
           \/ Ops(w, "mkdtemp") # {}
           \/ Ops(w, "move") # {}
           \/ Ops(w, "move_failed") # {}
           \/ Ops(w, "archive") # {}) =>
              /\ tensor_model_parallel_rank(w) = 0
              /\ data_parallel_rank(w) = 0
              /\ grid.pp = 1

C5_Witness ==
    /\ grid = [tp |-> 2, pp |-> 1, dp |-> 2]
    /\ AllDone
    /\ archive # {}
    /\ Cardinality({w \in Workers : Ops(w, "archive") # {}}) = 1

\* C6: a save with model-parallel size > 1 and more than one pipeline stage
\* writes no shard file, leaves no archive at save_path and logs that
\* saving for pipeline parallel is not implemented.
C6_PipelineSaveLogged ==
    (uses_model_parallel /\ ~single_pipeline_stage) =>
        \A w \in Workers :
            /\ Ops(w, "write") = {}
            /\ archive = {}
            /\ save_pc[w] = "done" =>
                  \E i \in 1..Len(log[w]) : log[w][i] = not_implemented_msg

ExpectedShardDir(r) == <<"mp_rank_", TwoDigits[r + 1][1], TwoDigits[r + 1][2]>>

ExpectedShardPath(r) == ExpectedShardDir(r) \o <<"/", "model_weights.ckpt">>

\* the worker of tensor-parallel rank r and data-parallel rank 0, in a job
\* of one pipeline stage
ShardWriter(r) ==
    CHOOSE v \in Workers :
        tensor_model_parallel_rank(v) = r /\ data_parallel_rank(v) = 0

\* C12: an archive made by a save with tensor_parallel_size = T and one
\* pipeline stage holds exactly the directories mp_rank_00 .. mp_rank_<T-1>,
\* the config file, one weights file in each directory and beside these only
\* artifact files of the model, and the weights file in mp_rank_<NN> is the
\* state the worker of tensor-parallel rank NN and data-parallel rank 0
\* wrote in this save.
C12_ArchiveContent ==
    \A a \in archive :
        /\ a.dirs = {ExpectedShardDir(r) : r \in 0..(grid.tp - 1)}
        /\ Cardinality(a.dirs) = grid.tp
        /\ <<"model_config.yaml">> \in DOMAIN a.files
        /\ a.files[<<"model_config.yaml">>].kind = "config"
        /\ \A r \in 0..(grid.tp - 1) : ExpectedShardPath(r) \in DOMAIN a.files
        /\ \A x \in DOMAIN a.files :
              \/ x = <<"model_config.yaml">>
              \/ \E r \in 0..(grid.tp - 1) : x = ExpectedShardPath(r)
              \/ a.files[x].kind = "artifact"
        /\ \A r \in 0..(grid.tp - 1) :
              LET v == ShardWriter(r)
              IN  /\ Ops(v, "write") # {}
                  /\ a.files[ExpectedShardPath(r)] = state_dict(v, request[v])
                  /\ a.files[ExpectedShardPath(r)].of = r
                  /\ a.files[ExpectedShardPath(r)].kind = "weights"

C12_Witness ==
    /\ grid.tp = 2
    /\ grid.dp = 2
    /\ AllDone
    /\ \E a \in archive :
          /\ Cardinality(a.dirs) = 2
          /\ a.files[ExpectedShardPath(1)].of = 1

\* the leader's next move finds no file to move
MissingShard(w) ==
    /\ save_pc[w] = "move"
    /\ ExpectedShardFile(tp_rank[w]) \notin DOMAIN files

\* a step in which worker w moves on from a missing shard
MissingShardStep(w) ==
    /\ MissingShard(w)
    /\ save_pc'[w] # "move" \/ trace'[w] # trace[w]

\* C13: when the leader comes to move a shard file that does not exist, its
\* save_to raises there: nothing is moved or archived by it afterwards, no
\* archive is at save_path, and its tmpdir is gone.  A leader whose save_to
\* returned has moved every shard.
C13_MissingShardFails ==
    /\ [](\A w \in Workers :
             /\ Ops(w, "move_failed") # {} =>
                   /\ save_pc[w] = "done"
                   /\ save_outcome[w] = "raised"
                   /\ Ops(w, "move_failed") = {Len(trace[w])}
                   /\ Ops(w, "archive") = {}
                   /\ archive = {}
                   /\ ~tmpdir[w].exists
             /\ Ops(w, "archive") # {} =>
                   Cardinality(Ops(w, "move")) = grid.tp)
    /\ [][\A w \in Workers :
             MissingShardStep(w) =>
                 /\ save_outcome'[w] = "raised"
                 /\ save_pc'[w] = "done"
                 /\ trace'[w] = Append(trace[w],
                                       [op |-> "move_failed",
                                        name |-> ExpectedShardFile(tp_rank[w])])
                 /\ ~tmpdir'[w].exists
                 /\ archive' = {}
                 /\ files' = files]_vars

C13_Witness ==
    /\ ~initialized
    /\ grid.tp > 1
    /\ AllDone
    /\ archive = {}
    /\ \E w \in Workers :
          /\ Ops(w, "move") # {}
          /\ Ops(w, "move_failed") # {}
          /\ save_outcome[w] = "raised"


\* C18: when the model-parallel size is unset or 1, a worker in save_to
\* is either at its start or has delegated to super().save_to and
\* returned; it has written no shard file, waited at no barrier, made no
\* tmpdir, moved nothing, archived nothing and logged nothing.
C18_PlainSaveDelegates ==
    (~configured \/ grid.tp * grid.pp = 1) =>
        /\ files = NoFiles
        /\ \A w \in Workers :
              /\ save_pc[w] \in {"start", "done"}
              /\ save_pc[w] = "start" => trace[w] = <<>>
              /\ save_pc[w] = "done" =>
                    /\ trace[w] = <<[op |-> "super_save_to", name |-> <<>>]>>
                    /\ save_outcome[w] = "returned"
              /\ ~tmpdir[w].exists
              /\ log[w] = <<>>

C18_Witness ==
    /\ configured
    /\ grid.tp * grid.pp = 1
    /\ grid.dp > 1
    /\ AllDone
    /\ \A w \in Workers : Ops(w, "super_save_to") # {}

-----------------------------------------------------------------------------
(* save_to: one save request, served by every worker of the job *)

SaveSpecInit ==
    /\ grid \in Grids
    /\ enabled = TRUE
    /\ growth_interval = MaxGrowthInterval
    /\ ScalerConstructed
    /\ SaveInit
    /\ PluginIdle

SaveSpec == SaveSpecInit /\ [][SaveNext]_vars

-----------------------------------------------------------------------------
(* save_to: termination of one save request *)

\* the steps of save_to that worker w takes on its own
SaveStep(w) ==
    /\ w \in Workers
    /\ \/ SaveDelegate(w)
       \/ SaveSkipPipeline(w)
       \/ SaveShard(w)
       \/ SaveNotLeader(w)
       \/ LeaderMakeTmpdir(w)
       \/ LeaderMoveShard(w)
       \/ LeaderPackage(w)

\* every worker is an OS process of its own that keeps running, and
\* torch.distributed.barrier() lets its callers go once every worker of the
\* job has called it
SaveFairness ==
    /\ \A w \in AllRanks : WF_vars(SaveStep(w))
    /\ WF_vars(Barrier)

SaveLiveSpec == SaveSpecInit /\ [][SaveNext]_vars /\ SaveFairness

AllAtBarrier == \A w \in Workers : save_pc[w] = "barrier"

AllReturned ==
    \A w \in Workers : save_pc[w] = "done" /\ save_outcome[w] = "returned"

\* C21: with the distributed runtime initialized and every worker of the job
\* in save_to for the same request: in a save with model-parallel size > 1
\* and one pipeline stage every worker, whatever its tensor-parallel and
\* data-parallel rank, comes to the barrier, the workers waiting at the
\* barrier are let go, and every worker returns from save_to; with more than
\* one pipeline stage no worker is ever at the barrier; and in every case
\* every worker returns from save_to.
C21_SaveTerminates ==
    /\ (initialized /\ uses_model_parallel /\ single_pipeline_stage) =>
           /\ <>AllAtBarrier
           /\ (AllAtBarrier ~> (\A w \in Workers : save_pc[w] # "barrier"))
           /\ [](\A w \in Workers :
                    save_pc[w] \notin {"start", "barrier"} =>
                        \A v \in Workers : save_pc[v] \notin {"start", "barrier"})
    /\ [](grid.pp > 1 => \A w \in Workers : save_pc[w] # "barrier")
    /\ initialized => <>[]AllReturned

C21_Witness ==
    /\ initialized
    /\ uses_model_parallel
    /\ single_pipeline_stage
    /\ grid.tp > 1
    /\ grid.dp > 1
    /\ AllReturned
    /\ \A w \in Workers : request[w] = 1
    /\ archive # {}

-----------------------------------------------------------------------------
(* save_to: repeated save requests, with nothing between them *)

SaveTwiceNext ==
    \/ SaveNext
    \/ \E w \in Workers : SaveAgain(w)

SaveTwiceSpec == SaveSpecInit /\ [][SaveTwiceNext]_vars

\* the save request an archive was made in: that of its config file
ArchiveRequest(a) == a.files[<<"model_config.yaml">>].request

\* C20: when every worker calls save_to repeatedly with the same save_path
\* (runtime initialized, one pipeline stage, tensor_parallel_size > 1), an
\* archive holds only weights written in the save request it was made in,
\* and no merge fails on a missing shard file.
C20_SavesDoNotInterfere ==
    (configured /\ initialized /\ grid.pp = 1 /\ grid.tp > 1) =>
        /\ \A a \in archive :
              \A x \in DOMAIN a.files :
                  a.files[x].kind = "weights" =>
                      a.files[x].request = ArchiveRequest(a)
        /\ \A w \in Workers : Ops(w, "move_failed") = {}

-----------------------------------------------------------------------------
(* NLPDDPPlugin: the pieces of the code the actions are built from *)

\* app_state.model_parallel_size is not None
model_parallel_size_set == configured

\* variant: only the tensor-parallel rank is compared
ranks_validated_tensor_only(w) ==
    app_state[w].tensor_model_parallel_rank = tensor_model_parallel_rank(w)

\* assert app_state.tensor_model_parallel_rank ==
\*            parallel_state.get_tensor_model_parallel_rank()
\* assert app_state.pipeline_model_parallel_rank ==
\*            parallel_state.get_pipeline_model_parallel_rank()
ranks_validated(w) ==
    /\ app_state[w].tensor_model_parallel_rank = tensor_model_parallel_rank(w)
    /\ app_state[w].pipeline_model_parallel_rank =
           pipeline_model_parallel_rank(w)

\* the five assignments that follow the assertions
set_parallel_fields(a, w) ==
    [a EXCEPT !.tensor_model_parallel_group = get_tensor_model_parallel_group(w),
              !.data_parallel_group = get_data_parallel_group(w),
              !.data_parallel_rank = data_parallel_rank(w),
              !.data_parallel_size = get_data_parallel_world_size,
              !.pipeline_model_parallel_group =
                  get_pipeline_model_parallel_group(w)]

-----------------------------------------------------------------------------
(* NLPDDPPlugin: actions *)

\* the ranks computed beforehand are whatever the code that filled AppState
\* put there; with no model-parallel size configured there are none
PluginInit ==
    /\ app_state \in
          [Workers ->
              IF model_parallel_size_set
              THEN {AppStateWith(t, p) : t \in 0..(grid.tp - 1),
                                         p \in 0..(grid.pp - 1)}
              ELSE {AppStateWith(NoRank, NoRank)}]
    /\ parallel_state = [w \in Workers |-> FALSE]
    /\ plugin_pc = [w \in Workers |-> "start"]
    /\ plugin_outcome = [w \in Workers |-> "pending"]

\* setup_distributed up to super().setup_distributed(), which initializes
\* the distributed runtime together with the other workers of the job, if
\* it is not initialized yet
SetupDistributed(w) ==
    /\ plugin_pc[w] = "start"
    /\ plugin_pc' = [plugin_pc EXCEPT ![w] =
                        IF initialized THEN "set_up" ELSE "init_ddp"]
    /\ UNCHANGED <<grid, scalerVars, saveVars, app_state, parallel_state,
                   plugin_outcome>>

\* the runtime is initialized once every worker of the job has joined
InitDDP ==
    /\ \A w \in Workers : plugin_pc[w] = "init_ddp"
    /\ initialized' = TRUE
    /\ plugin_pc' = [w \in Workers |-> "set_up"]
    /\ UNCHANGED <<grid, scalerVars, configured, save_pc, request, files,
                   archive, tmpdir, tp_rank, save_outcome, log, trace,
                   app_state, parallel_state, plugin_outcome>>

\* setup_distributed after super().setup_distributed(): init_model_parallel
\* is called if a model-parallel size is configured
SetupDistributedInitModelParallel(w) ==
    /\ plugin_pc[w] = "set_up"
    /\ IF model_parallel_size_set
       THEN /\ plugin_pc' = [plugin_pc EXCEPT ![w] = "init_model_parallel"]
            /\ UNCHANGED plugin_outcome
       ELSE /\ plugin_pc' = [plugin_pc EXCEPT ![w] = "done"]
            /\ plugin_outcome' = [plugin_outcome EXCEPT ![w] = "returned"]
    /\ UNCHANGED <<grid, scalerVars, saveVars, app_state, parallel_state>>

\* init_model_parallel called on its own
InitModelParallelCalled(w) ==
    /\ plugin_pc[w] = "start"
    /\ plugin_pc' = [plugin_pc EXCEPT ![w] = "init_model_parallel"]
    /\ UNCHANGED <<grid, scalerVars, saveVars, app_state, parallel_state,
                   plugin_outcome>>

\* init_model_parallel: with a model-parallel size configured and the
\* runtime initialized, initialize the groups, compare the ranks and set the
\* fields of app_state; otherwise do nothing
InitModelParallel(w) ==
    /\ plugin_pc[w] = "init_model_parallel"
    /\ IF model_parallel_size_set /\ initialized
       THEN /\ parallel_state' = [parallel_state EXCEPT ![w] = TRUE]
            /\ IF ranks_validated(w)
               THEN /\ app_state' = [app_state EXCEPT
                                        ![w] = set_parallel_fields(@, w)]
                    /\ plugin_outcome' =
                          [plugin_outcome EXCEPT ![w] = "returned"]
               ELSE /\ plugin_outcome' =
                          [plugin_outcome EXCEPT ![w] = "raised"]
                    /\ UNCHANGED app_state
       ELSE /\ plugin_outcome' = [plugin_outcome EXCEPT ![w] = "returned"]
            /\ UNCHANGED <<app_state, parallel_state>>
    /\ plugin_pc' = [plugin_pc EXCEPT ![w] = "done"]
    /\ UNCHANGED <<grid, scalerVars, saveVars>>

PluginNext ==
    \/ \E w \in Workers : SetupDistributed(w)
    \/ InitDDP
    \/ \E w \in Workers : SetupDistributedInitModelParallel(w)
    \/ \E w \in Workers : InitModelParallelCalled(w)
    \/ \E w \in Workers : InitModelParallel(w)

PluginSpecInit ==
    /\ grid \in Grids
    /\ enabled = TRUE
    /\ growth_interval = MaxGrowthInterval
    /\ ScalerConstructed
    /\ SaveInit
    /\ PluginInit

PluginSpec == PluginSpecInit /\ [][PluginNext]_vars

-----------------------------------------------------------------------------
(* NLPDDPPlugin: properties *)

\* the ranks computed beforehand are those the runtime reports
RanksMatch(w) ==
    /\ app_state[w].tensor_model_parallel_rank = w % grid.tp
    /\ app_state[w].pipeline_model_parallel_rank = w \div (grid.tp * grid.dp)

DataParallelUnset(w) ==
    /\ app_state[w].data_parallel_rank = NoRank
    /\ app_state[w].data_parallel_size = NoRank
    /\ app_state[w].tensor_model_parallel_group = NoGroup
    /\ app_state[w].data_parallel_group = NoGroup
    /\ app_state[w].pipeline_model_parallel_group = NoGroup

PluginDone(w) == plugin_pc[w] = "done"

\* C23: with a model-parallel size configured and the distributed runtime
\* initialized, a worker whose init_model_parallel has returned normally has
\* the tensor-parallel and pipeline-parallel rank computed beforehand equal
\* to those the runtime reports; a worker whose ranks differ fails, after the
\* groups were initialized, with data_parallel_rank, data_parallel_size and
\* the group handles of app_state never set; and with no model-parallel size
\* configured no groups are initialized, app_state is left as it was and
\* nothing is raised.
C23_InitValidated ==
    \A w \in Workers :
        /\ (configured /\ initialized /\ PluginDone(w)
                /\ plugin_outcome[w] = "returned") => RanksMatch(w)
        /\ (configured /\ initialized /\ PluginDone(w) /\ ~RanksMatch(w)) =>
               plugin_outcome[w] = "raised"
        /\ (configured /\ ~RanksMatch(w)) => DataParallelUnset(w)
        /\ plugin_outcome[w] = "raised" =>
               /\ parallel_state[w]
               /\ ~RanksMatch(w)
               /\ DataParallelUnset(w)
        /\ ~configured =>
               /\ ~parallel_state[w]
               /\ app_state[w] = AppStateWith(NoRank, NoRank)
               /\ plugin_outcome[w] # "raised"

\* one worker failed on its pipeline-parallel rank alone, another passed
\* the comparison and has its fields set
C23_Witness ==
    /\ configured
    /\ initialized
    /\ grid.tp > 1
    /\ grid.pp > 1
    /\ \E w \in Workers :
          /\ PluginDone(w)
          /\ plugin_outcome[w] = "raised"
          /\ app_state[w].tensor_model_parallel_rank = w % grid.tp
    /\ \E v \in Workers :
          /\ PluginDone(v)
          /\ plugin_outcome[v] = "returned"
          /\ app_state[v].data_parallel_size = grid.dp
          /\ app_state[v].data_parallel_group # NoGroup
=============================================================================
